---- MODULE Spec2Model ----
(***************************************************************************)
(* A model of src/main.py: the AdvancedScanner of the phone intelligence   *)
(* platform.  Three specifications share the module:                       *)
(*   SpecNormalize  normalize_number applied once and twice to a subject    *)
(*   SpecScan       __init__ followed by analyze_number, section by section *)
(*   Spec           _make_request under its two callers, the thread pool    *)
(*                  of _parallel_requests and the loop of                   *)
(*                  _analyze_social_media                                   *)
(* Strings are sequences of one-character strings.                          *)
(***************************************************************************)
EXTENDS Integers, Sequences, FiniteSets, TLC

VARIABLES
    raw,            \* the subject string handed to the scanner
    number,         \* self.number
    renorm,         \* normalize_number(self.number)
    npc,            \* position of the normalization run
    scan_type,      \* the ScanType analyze_number is called with
    pc,             \* position of the scanner: new, created, running, returned, raised
    idx,            \* number of section handlers analyze_number has evaluated
    scan_results,   \* keys of the local dict results of analyze_number
    report,         \* keys of the dict analyze_number returned, or NoReport
    error,          \* the exception that escaped analyze_number, or "none"
    parseable,      \* phonenumbers.parse accepts self.number
    valid,          \* phonenumbers.is_valid_number holds of the parsed number
    queried,        \* an HTTP request has been sent during this scan
    metadata,       \* results['metadata'], or NoMetadata before it is built
    mode,           \* the caller of _make_request: "parallel" or "social"
    n,              \* number of URLs (platforms) handed to the caller
    max_retries,    \* config.max_retries
    concurrent_requests, \* config.concurrent_requests
    status,         \* per URL: idle, pending, running, returned, raised
    attempts,       \* per URL: attempts _make_request has made
    last,           \* per URL: outcome of its latest attempt, or "none"
    submitted,      \* number of URLs submitted to the executor
    collected,      \* the futures as_completed has yielded
    results,        \* the list _parallel_requests builds
    social_results, \* the dict _analyze_social_media builds
    mainpc,         \* position of the calling thread
    rmode,          \* what is called: "assess" (_assess_risk) or "categorize"
    rparse,         \* phonenumbers.parse accepts self.number
    number_type,    \* phonenumbers.number_type of the parsed number
    has_carrier,    \* carrier.name_for_number gives a non-empty name
    risk_factors,   \* the dict risk_factors of _assess_risk, in thousandths
    risk_score,     \* the score, in thousandths: total_risk or the argument
    risk_level,     \* what _categorize_risk returned
    rpc,            \* position of the call: start, done, raised
    activity_hours, \* the start hours read from temporal_data['activity_hours']
    coordinates,    \* geo_data.get('coordinates', []), in units of 0.1
    has_metrics,    \* behavior_data has the key 'metrics'
    metrics,        \* behavior_data['metrics'], rows of one feature
    patterns,       \* the cluster counts and members _analyze_patterns returns
    ppc             \* position of _analyze_patterns: start, done, raised

normVars == <<raw, number, renorm, npc>>

scanVars == <<scan_type, pc, idx, scan_results, report, error, parseable, valid,
              queried, metadata>>

dispVars == <<mode, n, max_retries, concurrent_requests, status, attempts, last,
              submitted, collected, results, social_results, mainpc>>

riskVars == <<rmode, rparse, number_type, has_carrier, risk_factors, risk_score,
              risk_level, rpc>>

patVars == <<activity_hours, coordinates, has_metrics, metrics, patterns, ppc>>

otherVars == <<riskVars, patVars>>

vars == <<normVars, scanVars, dispVars, otherVars>>

(***************************************************************************)
(* Bounds of the model.                                                     *)
(***************************************************************************)
MaxLen == 3

(***************************************************************************)
(* normalize_number                                                         *)
(***************************************************************************)
Digits == {"0", "1", "2", "3", "4", "5", "6", "7", "8", "9"}

\* The characters the bounded subjects are drawn from: two digits, the plus
\* sign and two characters the pattern [^\d+] removes.
Alphabet == {"1", "5", "+", "-", " "}

\* The subject of the documented example, "(555) 555-0123".
ExampleSubject ==
    <<"(", "5", "5", "5", ")", " ", "5", "5", "5", "-", "0", "1", "2", "3">>

BoundedStrings == UNION {[1..k -> Alphabet] : k \in 0..MaxLen}

RawInputs == BoundedStrings \cup {ExampleSubject}

\* The class [^\d+] of line 109: everything but a digit and '+'.
Removed(c) == c \notin Digits /\ c # "+"

\* re.sub(r'[^\d+]', '', number)
Cleaned(s) == SelectSeq(s, LAMBDA c : ~Removed(c))

\* cleaned.startswith('+')
StartsWithPlus(s) == Len(s) > 0 /\ s[1] = "+"

DefaultPrefix == <<"+", "1">>

\* A slip that prepends the default prefix whatever the cleaned string
\* starts with.
normalize_number_always_prefix(s) == DefaultPrefix \o Cleaned(s)

normalize_number(s) ==
    IF ~StartsWithPlus(Cleaned(s)) THEN DefaultPrefix \o Cleaned(s)
    ELSE Cleaned(s)

HasDigit(s) == \E i \in 1..Len(s) : s[i] \in Digits

\* One leading '+' followed by digits only.
Canonical(s) ==
    /\ Len(s) >= 1
    /\ s[1] = "+"
    /\ \A i \in 2..Len(s) : s[i] \in Digits

(***************************************************************************)
(* The state of a scanner on which nothing runs.                            *)
(***************************************************************************)
NoReport == {"<no report>"}

NoMetadata == [scan_duration |-> "unset", confidence_score |-> "unset"]

\* The dict _get_metadata returns: both fields are None.
GetMetadata == [scan_duration |-> "None", confidence_score |-> "None"]

ScanIdle ==
    /\ scan_type = "basic"
    /\ pc = "off"
    /\ idx = 0
    /\ scan_results = {}
    /\ report = NoReport
    /\ error = "none"
    /\ parseable = FALSE
    /\ valid = FALSE
    /\ queried = FALSE
    /\ metadata = NoMetadata

DispatchIdle ==
    /\ mode = "off"
    /\ n = 0
    /\ max_retries = 0
    /\ concurrent_requests = 0
    /\ status = <<>>
    /\ attempts = <<>>
    /\ last = <<>>
    /\ submitted = 0
    /\ collected = {}
    /\ results = <<>>
    /\ social_results = <<>>
    /\ mainpc = "off"

NoFactors == [number_type |-> 0, carrier_reliability |-> 0,
              spam_probability |-> 0, fraud_score |-> 0]

RiskIdle ==
    /\ rmode = "off"
    /\ rparse = FALSE
    /\ number_type = 0
    /\ has_carrier = FALSE
    /\ risk_factors = NoFactors
    /\ risk_score = 0
    /\ risk_level = "none"
    /\ rpc = "off"

NoPatterns ==
    [temporal |-> [clusters |-> 0, peak_hours |-> <<>>],
     geographical |-> [clusters |-> 0, hotspots |-> <<>>],
     behavioral |-> [clusters |-> 0, anomalies |-> <<>>]]

PatIdle ==
    /\ activity_hours = <<>>
    /\ coordinates = <<>>
    /\ has_metrics = FALSE
    /\ metrics = <<>>
    /\ patterns = NoPatterns
    /\ ppc = "off"

OtherIdle == RiskIdle /\ PatIdle

(***************************************************************************)
(* SpecNormalize: normalize_number applied to a subject, then to its own    *)
(* result.                                                                  *)
(***************************************************************************)
NormInit ==
    /\ raw \in RawInputs
    /\ number = <<>>
    /\ renorm = <<>>
    /\ npc = "raw"
    /\ ScanIdle
    /\ DispatchIdle
    /\ OtherIdle

Normalize ==
    /\ npc = "raw"
    /\ number' = normalize_number(raw)
    /\ npc' = "once"
    /\ UNCHANGED <<raw, renorm>>
    /\ UNCHANGED <<scanVars, dispVars, otherVars>>

Renormalize ==
    /\ npc = "once"
    /\ renorm' = normalize_number(number)
    /\ npc' = "twice"
    /\ UNCHANGED <<raw, number>>
    /\ UNCHANGED <<scanVars, dispVars, otherVars>>

NormNext == Normalize \/ Renormalize

SpecNormalize == NormInit /\ [][NormNext]_vars

\* C10: normalization is idempotent: normalizing the normalized subject
\* gives the normalized subject again.
C10_Idempotent == npc = "twice" => renorm = number

\* A subject with a non-leading '+' and a removed character has been
\* normalized twice.
C10_Witness ==
    /\ npc = "twice"
    /\ raw = <<"5", "+", "-">>
    /\ number = <<"+", "1", "5", "+">>

(***************************************************************************)
(* analyze_number: the sections of a report and the methods computing them. *)
(***************************************************************************)
ScanTypes == {"basic", "deep", "comprehensive"}

BaseSections ==
    <<"metadata", "basic_info", "risk_assessment", "digital_footprint",
      "temporal_analysis", "correlation_analysis", "verification_status">>

DeepSections ==
    <<"deep_web_analysis", "social_media_presence", "fraud_indicators",
      "historical_data">>

ComprehensiveSections ==
    <<"pattern_analysis", "behavioral_indicators",
      "cross_platform_correlation", "anomaly_detection">>

Range(s) == {s[i] : i \in 1..Len(s)}

\* The handlers analyze_number evaluates, in order, for a scan type.
Plan(t) ==
    BaseSections
        \o (IF t \in {"deep", "comprehensive"} THEN DeepSections ELSE <<>>)
        \o (IF t = "comprehensive" THEN ComprehensiveSections ELSE <<>>)

\* The keys of the report a scan type asks for.
SectionsOf(t) == Range(Plan(t))

\* The method analyze_number calls for a section.
Handler(section) ==
    CASE section = "metadata" -> "_get_metadata"
      [] section = "basic_info" -> "_get_basic_info"
      [] section = "risk_assessment" -> "_assess_risk"
      [] section = "digital_footprint" -> "_analyze_digital_footprint"
      [] section = "temporal_analysis" -> "_perform_temporal_analysis"
      [] section = "correlation_analysis" -> "_perform_correlation_analysis"
      [] section = "verification_status" -> "_verify_number"
      [] section = "deep_web_analysis" -> "_deep_web_scan"
      [] section = "social_media_presence" -> "_analyze_social_media"
      [] section = "fraud_indicators" -> "_check_fraud_indicators"
      [] section = "historical_data" -> "_gather_historical_data"
      [] section = "pattern_analysis" -> "_analyze_patterns"
      [] section = "behavioral_indicators" -> "_analyze_behavior"
      [] section = "cross_platform_correlation" -> "_correlate_cross_platform"
      [] section = "anomaly_detection" -> "_detect_anomalies"

\* The methods class AdvancedScanner defines, among those a scan reaches.
DefinedMethods ==
    {"_get_metadata", "_get_basic_info", "_get_line_type", "_get_region_info",
     "_assess_carrier_reliability", "_calculate_spam_probability",
     "_calculate_fraud_score", "_generate_risk_recommendations",
     "_assess_risk", "_scan_web_presence", "_check_data_breaches",
     "_check_online_services", "_calculate_reputation_score",
     "_analyze_digital_footprint", "_perform_temporal_analysis",
     "_perform_correlation_analysis", "_verify_number", "_deep_web_scan",
     "_scan_phone_directories", "_search_engine_scan",
     "_extract_search_results", "_analyze_social_media",
     "_analyze_temporal_patterns", "_analyze_geographical_patterns",
     "_analyze_patterns", "_analyze_usage_frequency",
     "_analyze_usage_intensity", "_analyze_usage_duration",
     "_analyze_incoming_patterns", "_analyze_outgoing_patterns",
     "_identify_preferred_channels", "_calculate_pattern_correlation",
     "_calculate_pattern_confidence", "_assess_pattern_reliability",
     "_analyze_behavior", "_correlate_cross_platform", "_detect_anomalies",
     "_find_first_occurrence", "_analyze_activity_pattern",
     "_detect_recent_changes", "_calculate_persistence_score",
     "_analyze_cross_platform_presence", "_find_associated_identities",
     "_analyze_behavioral_patterns", "_calculate_correlation_score",
     "_parse_social_media_response", "_categorize_risk", "_make_request"}

\* The methods of self a method calls, in the order it evaluates them.
Calls(m) ==
    CASE m = "_get_basic_info" -> <<"_get_line_type", "_get_region_info">>
      [] m = "_assess_risk" ->
            <<"_get_line_type", "_assess_carrier_reliability",
              "_calculate_spam_probability", "_calculate_fraud_score",
              "_categorize_risk", "_generate_risk_recommendations">>
      [] m = "_analyze_digital_footprint" ->
            <<"_scan_web_presence", "_check_data_breaches",
              "_check_online_services", "_calculate_reputation_score">>
      [] m = "_perform_temporal_analysis" ->
            <<"_find_first_occurrence", "_analyze_activity_pattern",
              "_detect_recent_changes", "_calculate_persistence_score">>
      [] m = "_perform_correlation_analysis" ->
            <<"_analyze_cross_platform_presence", "_find_associated_identities",
              "_analyze_behavioral_patterns", "_calculate_correlation_score">>
      [] m = "_deep_web_scan" ->
            <<"_scan_phone_directories", "_scan_social_networks",
              "_check_leak_databases", "_search_engine_scan">>
      [] m = "_search_engine_scan" -> <<"_extract_search_results">>
      [] m = "_analyze_social_media" ->
            <<"_make_request", "_parse_social_media_response">>
      [] m = "_analyze_patterns" ->
            <<"_analyze_temporal_patterns", "_analyze_geographical_patterns",
              "_analyze_behavioral_patterns", "_analyze_usage_frequency",
              "_analyze_usage_intensity", "_analyze_usage_duration",
              "_analyze_incoming_patterns", "_analyze_outgoing_patterns",
              "_identify_preferred_channels", "_calculate_pattern_correlation",
              "_calculate_pattern_confidence", "_assess_pattern_reliability">>
      [] OTHER -> <<>>

\* The methods whose body runs inside try/except Exception.
Catches(m) ==
    m \in {"_get_basic_info", "_assess_carrier_reliability",
           "_scan_web_presence", "_verify_number", "_scan_phone_directories",
           "_search_engine_scan", "_analyze_social_media"}

\* The methods that call phonenumbers.parse(self.number) outside any try.
ParsesUnguarded(m) == m = "_assess_risk"

\* The methods that call self.session.get.
SendsRequest(m) ==
    m \in {"_scan_web_presence", "_scan_phone_directories",
           "_search_engine_scan", "_make_request"}

Min(S) == CHOOSE x \in S : \A y \in S : x <= y

RECURSIVE Raised(_, _)
\* The exception that escapes a call of self.m, "none" when it returns; p
\* tells whether phonenumbers.parse accepts self.number.
Raised(m, p) ==
    IF m \notin DefinedMethods THEN "AttributeError"
    ELSE IF Catches(m) THEN "none"
    ELSE IF ParsesUnguarded(m) /\ ~p THEN "NumberParseException"
    ELSE LET cs == Calls(m)
             bad == {j \in 1..Len(cs) : Raised(cs[j], p) # "none"}
         IN  IF bad = {} THEN "none" ELSE Raised(cs[Min(bad)], p)

RECURSIVE Queries(_, _)
\* A call of self.m sends an HTTP request before it returns or raises.
Queries(m, p) ==
    /\ m \in DefinedMethods
    /\ \/ SendsRequest(m)
       \/ /\ ~(ParsesUnguarded(m) /\ ~p)
          /\ LET cs == Calls(m)
                 bad == {j \in 1..Len(cs) : Raised(cs[j], p) # "none"}
                 upto == IF bad = {} \/ Catches(m) THEN Len(cs) ELSE Min(bad)
             IN  \E j \in 1..upto : Queries(cs[j], p)

\* The sections results holds once k handlers have been evaluated: the dict
\* literal is bound after the seventh, each update applied after its fourth.
KeysAfter(t, k) ==
    LET plan == Plan(t)
        whole == IF k >= Len(BaseSections) + Len(DeepSections)
                    + Len(ComprehensiveSections)
                 THEN k
                 ELSE IF k >= Len(BaseSections) + Len(DeepSections)
                 THEN Len(BaseSections) + Len(DeepSections)
                 ELSE IF k >= Len(BaseSections) THEN Len(BaseSections)
                 ELSE 0
    IN  {plan[j] : j \in 1..whole}

(***************************************************************************)
(* SpecScan: a scanner is constructed on a subject and analyze_number runs. *)
(***************************************************************************)
ScanInit ==
    /\ raw \in RawInputs
    /\ number = <<>>
    /\ renorm = <<>>
    /\ npc = "off"
    /\ scan_type \in ScanTypes
    /\ pc = "new"
    /\ idx = 0
    /\ scan_results = {}
    /\ report = NoReport
    /\ error = "none"
    /\ parseable = FALSE
    /\ valid = FALSE
    /\ queried = FALSE
    /\ metadata = NoMetadata
    /\ DispatchIdle
    /\ OtherIdle

\* AdvancedScanner.__init__: self.number is the normalized subject.  What
\* phonenumbers makes of it is the library's answer, fixed from here on; a
\* number without a digit is never parsed, and only a parsed one is valid.
Construct ==
    /\ pc = "new"
    /\ number' = normalize_number(raw)
    /\ \E p \in BOOLEAN, v \in BOOLEAN :
          /\ p => HasDigit(number')
          /\ v => p
          /\ parseable' = p
          /\ valid' = v
    /\ pc' = "created"
    /\ UNCHANGED <<raw, renorm, npc, scan_type, idx, scan_results, report,
                   error, queried>>
    /\ UNCHANGED <<dispVars, otherVars>>
    /\ UNCHANGED metadata

\* analyze_number is called.
BeginAnalysis ==
    /\ pc = "created"
    /\ pc' = "running"
    /\ idx' = 0
    /\ scan_results' = {}
    /\ UNCHANGED <<normVars, scan_type, report, error, parseable, valid, queried>>
    /\ UNCHANGED <<dispVars, otherVars>>
    /\ UNCHANGED metadata

\* The next handler of the plan returns.
EvalSection ==
    /\ pc = "running"
    /\ idx < Len(Plan(scan_type))
    /\ LET m == Handler(Plan(scan_type)[idx + 1])
       IN  /\ Raised(m, parseable) = "none"
           /\ queried' = (queried \/ Queries(m, parseable))
    /\ idx' = idx + 1
    /\ scan_results' = KeysAfter(scan_type, idx + 1)
    /\ metadata' = IF Plan(scan_type)[idx + 1] = "metadata" THEN GetMetadata
                   ELSE metadata
    /\ UNCHANGED <<normVars, scan_type, pc, report, error, parseable, valid>>
    /\ UNCHANGED <<dispVars, otherVars>>

\* The next handler of the plan raises: the exception leaves analyze_number.
SectionRaises ==
    /\ pc = "running"
    /\ idx < Len(Plan(scan_type))
    /\ LET m == Handler(Plan(scan_type)[idx + 1])
       IN  /\ Raised(m, parseable) # "none"
           /\ error' = Raised(m, parseable)
           /\ queried' = (queried \/ Queries(m, parseable))
    /\ pc' = "raised"
    /\ UNCHANGED <<normVars, scan_type, idx, scan_results, report, parseable, valid>>
    /\ UNCHANGED <<dispVars, otherVars>>
    /\ UNCHANGED metadata

\* return results
ReturnResults ==
    /\ pc = "running"
    /\ idx = Len(Plan(scan_type))
    /\ report' = scan_results
    /\ pc' = "returned"
    /\ UNCHANGED <<normVars, scan_type, idx, scan_results, error, parseable,
                   valid, queried>>
    /\ UNCHANGED <<dispVars, otherVars>>
    /\ UNCHANGED metadata

\* main shows the overview: the confidence score is formatted with :.2f,
\* which raises TypeError on None; main then reports "Scan failed".
Display ==
    /\ pc = "returned"
    /\ pc' = IF metadata.confidence_score \in {"None", "unset"}
             THEN "display_failed" ELSE "displayed"
    /\ UNCHANGED <<normVars, scan_type, idx, scan_results, report, error,
                   parseable, valid, queried, metadata>>
    /\ UNCHANGED <<dispVars, otherVars>>

ScanNext ==
    \/ Construct
    \/ BeginAnalysis
    \/ EvalSection
    \/ SectionRaises
    \/ ReturnResults
    \/ Display

SpecScan == ScanInit /\ [][ScanNext]_vars

Finished == pc \in {"returned", "raised", "displayed", "display_failed"}

\* C2: for every subject normalization accepts and every scan type,
\* analyze_number runs to completion: no exception escapes a scan once the
\* scanner has been constructed.
C2_ScanNeverFails == pc \notin {"off", "new"} => error = "none"

\* C7: the report of a finished scan holds exactly the sections of the
\* requested scan type: seven for basic, four more for deep, four more for
\* comprehensive; stated for subjects phonenumbers parses.
C7_TierSections == (Finished /\ parseable) => report = SectionsOf(scan_type)

\* C8: a subject whose cleaned form has no digit, or that is no valid phone
\* number, is rejected when the scanner is created: no section is evaluated
\* and no source is queried.
C8_InvalidRejected ==
    (pc # "new" /\ (~HasDigit(Cleaned(raw)) \/ ~valid))
        => (pc = "rejected" /\ idx = 0 /\ ~queried)

\* C9: self.number is one leading '+' followed by digits only, and a subject
\* whose first kept character is not '+' gets the prefix '+1' before its
\* digits.
C9_CanonicalNumber ==
    pc # "new" =>
        /\ Canonical(number)
        /\ ~StartsWithPlus(Cleaned(raw)) =>
              number = DefaultPrefix \o SelectSeq(raw, LAMBDA c : c \in Digits)

\* C15: when analyze_number has returned a report, the metadata fields
\* scan_duration and confidence_score hold values, not None, and the
\* overview that formats the confidence score is displayed.
C15_MetadataUpdated ==
    /\ pc \in {"returned", "displayed", "display_failed"} =>
          /\ metadata.scan_duration \notin {"None", "unset"}
          /\ metadata.confidence_score \notin {"None", "unset"}
    /\ pc # "display_failed"

(***************************************************************************)
(* _make_request and its callers.                                           *)
(***************************************************************************)
MaxUrls == 3

MaxRetries == 2

MaxWorkers == 2

Urls == 1..n

\* What one attempt can end in: the response, or one of the exceptions
\* session.get and raise_for_status raise.
Failures == {"Timeout", "ConnectionError", "HTTP4xx", "HTTP429", "HTTP5xx"}

Outcomes == {"ok"} \cup Failures

\* The value _make_request returns for a URL: its response, or None when the
\* loop ends without a return statement.
Response(i) == <<"response", i>>

NoneValue == <<"None", 0>>

ReturnedValue(i) == IF last[i] = "ok" THEN Response(i) ELSE NoneValue

Done(i) == status[i] \in {"returned", "raised"}

Running == {i \in Urls : status[i] = "running"}

Pending == {i \in Urls : status[i] = "pending"}

\* An off-by-one in the test for the final attempt.
IsFinalAttemptOffByOne(a) == a = max_retries

\* attempt == self.config.max_retries - 1
IsFinalAttempt(a) == a = max_retries - 1

\* An executor that starts a thread for every submitted call.
WorkerAvailableUnbounded == TRUE

\* ThreadPoolExecutor(max_workers=concurrent_requests): a queued call starts
\* only on a worker thread that runs no other call.
WorkerAvailable == Cardinality(Running) < concurrent_requests

\* A fan-in loop that calls future.result() outside any try.
FanInCatchesNothing(e) == FALSE

\* except Exception around future.result(): every exception _make_request
\* raises is caught.
FanInCatches(e) == e \in Failures

\* A fan-in that keeps only the value it collected last.
AppendResultOverwrites(res, i) == <<ReturnedValue(i)>>

\* results.append(future.result())
AppendResult(res, i) == Append(res, ReturnedValue(i))

DispatchInit ==
    /\ raw = <<>>
    /\ number = <<>>
    /\ renorm = <<>>
    /\ npc = "off"
    /\ ScanIdle
    /\ OtherIdle
    /\ mode \in {"parallel", "social"}
    /\ n \in 0..MaxUrls
    /\ max_retries \in 0..MaxRetries
    /\ concurrent_requests \in 1..MaxWorkers
    /\ status = [i \in 1..n |-> "idle"]
    /\ attempts = [i \in 1..n |-> 0]
    /\ last = [i \in 1..n |-> "none"]
    /\ submitted = 0
    /\ collected = {}
    /\ results = <<>>
    /\ social_results = [i \in 1..n |-> "absent"]
    /\ mainpc = "run"

\* executor.submit(self._make_request, url, params), in the order of urls.
Submit ==
    /\ mode = "parallel"
    /\ mainpc = "run"
    /\ submitted < n
    /\ status' = [status EXCEPT ![submitted + 1] = "pending"]
    /\ submitted' = submitted + 1
    /\ UNCHANGED <<mode, n, max_retries, concurrent_requests, attempts, last,
                   collected, results, social_results, mainpc>>
    /\ UNCHANGED <<normVars, scanVars, otherVars>>

\* A worker thread takes the oldest queued call.
Start(i) ==
    /\ mode = "parallel"
    /\ status[i] = "pending"
    /\ \A j \in Pending : i <= j
    /\ WorkerAvailable
    /\ status' = [status EXCEPT ![i] = "running"]
    /\ UNCHANGED <<mode, n, max_retries, concurrent_requests, attempts, last,
                   submitted, collected, results, social_results, mainpc>>
    /\ UNCHANGED <<normVars, scanVars, otherVars>>

\* One iteration of the loop of _make_request: the request succeeds and the
\* response is returned, or it fails and the exception is logged, then
\* raised again on the final attempt.
Attempt(i, o) ==
    /\ status[i] = "running"
    /\ attempts[i] < max_retries
    /\ attempts' = [attempts EXCEPT ![i] = attempts[i] + 1]
    /\ last' = [last EXCEPT ![i] = o]
    /\ status' = [status EXCEPT ![i] =
                    IF o = "ok" THEN "returned"
                    ELSE IF IsFinalAttempt(attempts[i]) THEN "raised"
                    ELSE "running"]
    /\ UNCHANGED <<mode, n, max_retries, concurrent_requests, submitted,
                   collected, results, social_results, mainpc>>
    /\ UNCHANGED <<normVars, scanVars, otherVars>>

\* range(max_retries) is exhausted: the function ends and returns None.
LoopExit(i) ==
    /\ status[i] = "running"
    /\ attempts[i] >= max_retries
    /\ status' = [status EXCEPT ![i] = "returned"]
    /\ UNCHANGED <<mode, n, max_retries, concurrent_requests, attempts, last,
                   submitted, collected, results, social_results, mainpc>>
    /\ UNCHANGED <<normVars, scanVars, otherVars>>

\* as_completed yields a finished future: its result is appended, its
\* exception logged.
Collect(i) ==
    /\ mode = "parallel"
    /\ mainpc = "run"
    /\ submitted = n
    /\ Done(i)
    /\ i \notin collected
    /\ collected' = collected \cup {i}
    /\ IF status[i] = "returned"
       THEN /\ results' = AppendResult(results, i)
            /\ mainpc' = mainpc
       ELSE /\ results' = results
            /\ mainpc' = IF FanInCatches(last[i]) THEN mainpc ELSE "raised"
    /\ UNCHANGED <<mode, n, max_retries, concurrent_requests, status, attempts,
                   last, submitted, social_results>>
    /\ UNCHANGED <<normVars, scanVars, otherVars>>

\* _analyze_social_media calls _make_request for the next platform.
SocialCall(i) ==
    /\ mode = "social"
    /\ mainpc = "run"
    /\ status[i] = "idle"
    /\ \A j \in 1..(i - 1) : social_results[j] # "absent"
    /\ status' = [status EXCEPT ![i] = "running"]
    /\ UNCHANGED <<mode, n, max_retries, concurrent_requests, attempts, last,
                   submitted, collected, results, social_results, mainpc>>
    /\ UNCHANGED <<normVars, scanVars, otherVars>>

\* The call is over: the parsed response, or the error, is stored under the
\* platform.
SocialRecord(i) ==
    /\ mode = "social"
    /\ mainpc = "run"
    /\ Done(i)
    /\ social_results[i] = "absent"
    /\ social_results' = [social_results EXCEPT ![i] =
                            IF status[i] = "returned" THEN "parsed" ELSE "error"]
    /\ UNCHANGED <<mode, n, max_retries, concurrent_requests, status, attempts,
                   last, submitted, collected, results, mainpc>>
    /\ UNCHANGED <<normVars, scanVars, otherVars>>

\* return results
Return ==
    /\ mainpc = "run"
    /\ IF mode = "parallel"
       THEN submitted = n /\ collected = Urls
       ELSE \A i \in Urls : social_results[i] # "absent"
    /\ mainpc' = "returned"
    /\ UNCHANGED <<mode, n, max_retries, concurrent_requests, status, attempts,
                   last, submitted, collected, results, social_results>>
    /\ UNCHANGED <<normVars, scanVars, otherVars>>

Next ==
    \/ Submit
    \/ \E i \in Urls : Start(i)
    \/ \E i \in Urls, o \in Outcomes : Attempt(i, o)
    \/ \E i \in Urls : LoopExit(i)
    \/ \E i \in Urls : Collect(i)
    \/ \E i \in Urls : SocialCall(i)
    \/ \E i \in Urls : SocialRecord(i)
    \/ Return

Init == DispatchInit

Spec == Init /\ [][Next]_vars

Returned == {i \in Urls : status[i] = "returned"}

Failed == {i \in Urls : status[i] = "raised"}

\* C1: when the caller returns, what it collected holds exactly one entry
\* per source it was given: the list of _parallel_requests one per URL, the
\* dict of _analyze_social_media one per platform.
C1_OneEntryPerSource ==
    mainpc = "returned" =>
        IF mode = "parallel" THEN Len(results) = n
        ELSE \A i \in Urls : social_results[i] # "absent"

\* C3: _parallel_requests never fails because a request failed: no exception
\* leaves it, and when it returns, results holds exactly the values of the
\* requests that returned, each once, whatever happened to the others.
C3_DispatchNeverFails ==
    mode = "parallel" =>
        /\ mainpc # "raised"
        /\ mainpc = "returned" =>
              /\ Len(results) = Cardinality(Returned)
              /\ \A i \in Returned :
                    \E k \in 1..Len(results) : results[k] = ReturnedValue(i)

\* _parallel_requests has returned after one request raised and another
\* returned its response, which is in results.
C3_Witness ==
    /\ mode = "parallel"
    /\ mainpc = "returned"
    /\ Failed # {}
    /\ \E i \in Returned : last[i] = "ok" /\ results = <<Response(i)>>

C5_NoRetryAfterTerminal ==
    [][\A i \in Urls :
          last[i] \in {"HTTP4xx", "HTTP429"} => attempts'[i] = attempts[i]]_vars

\* C6: the number of requests in flight never exceeds
\* config.concurrent_requests; a URL beyond that stays queued.
C6_BoundedConcurrency == Cardinality(Running) <= concurrent_requests

\* Both workers of a pool of two are busy while a third URL is queued.
C6_Witness ==
    /\ mode = "parallel"
    /\ concurrent_requests = 2
    /\ Cardinality(Running) = 2
    /\ Pending # {}

\* The values of the requests that returned, in the order of urls: what
\* results holds when the futures complete in the order they were submitted.
RECURSIVE InUrlOrder(_)
InUrlOrder(k) ==
    IF k = 0 THEN <<>>
    ELSE IF status[k] = "returned"
         THEN Append(InUrlOrder(k - 1), ReturnedValue(k))
         ELSE InUrlOrder(k - 1)

\* C14: the list _parallel_requests returns does not depend on the order in
\* which the fetches complete: it is the list obtained when they complete in
\* the order of urls.
C14_OrderIndependent ==
    (mode = "parallel" /\ mainpc = "returned") => results = InUrlOrder(n)

Count(seq, v) == Cardinality({k \in 1..Len(seq) : seq[k] = v})

\* C14, amended: whatever the order in which the fetches complete, the list
\* holds the same values the same number of times, those of the requests
\* that returned; only their order in the list follows the completion order.
C14_SameValuesAnyOrder ==
    (mode = "parallel" /\ mainpc = "returned") =>
        /\ Len(results) = Len(InUrlOrder(n))
        /\ \A i \in Urls :
              Count(results, ReturnedValue(i))
                  = Count(InUrlOrder(n), ReturnedValue(i))

\* Two requests returned their responses and the second was collected first.
C14_Witness ==
    /\ mode = "parallel"
    /\ mainpc = "returned"
    /\ Len(results) = 2
    /\ results[1] = Response(2)
    /\ results[2] = Response(1)

\* C16: a call of _make_request ends by returning the response of a
\* successful attempt or by raising after exactly max_retries failed
\* attempts; it never returns without a response and never makes more than
\* max_retries attempts.
C16_ResponseOrRaise ==
    \A i \in Urls :
        /\ attempts[i] <= max_retries
        /\ status[i] = "returned" => last[i] = "ok"
        /\ status[i] = "raised" =>
              attempts[i] = max_retries /\ last[i] \in Failures

(***************************************************************************)
(* _assess_risk and _categorize_risk.  Scores are in thousandths: 0.8 is    *)
(* 800.  Every factor is a multiple of 0.1, so the mean of four is exact.   *)
(***************************************************************************)
\* The values phonenumbers.number_type returns (PhoneNumberType): 0 to 10,
\* and 99 for UNKNOWN.
NumberTypes == 0..10 \cup {99}

\* The scores _categorize_risk is called with: 0.000 to 1.000.
Scores == 0..1000

\* _get_line_type(parsed)['risk_score']: type_map.get(number_type, default)
LineTypeRisk(t) ==
    CASE t = 0 -> 800
      [] t = 1 -> 300
      [] t = 2 -> 200
      [] t = 3 -> 700
      [] OTHER -> 1000

\* _assess_carrier_reliability: 0.3 with a carrier name, 0.7 without, 0.8
\* when the number cannot be parsed.
CarrierReliability(p, c) == IF ~p THEN 800 ELSE IF c THEN 300 ELSE 700

\* _calculate_spam_probability and _calculate_fraud_score
SpamProbability == 500

FraudScore == 400

\* The dict risk_factors of _assess_risk.
RiskFactors(t, p, c) ==
    [number_type |-> LineTypeRisk(t),
     carrier_reliability |-> CarrierReliability(p, c),
     spam_probability |-> SpamProbability,
     fraud_score |-> FraudScore]

\* sum(risk_factors.values()) / len(risk_factors)
TotalRisk(f) ==
    (f.number_type + f.carrier_reliability + f.spam_probability
        + f.fraud_score) \div Cardinality(DOMAIN f)

\* A slip that makes every comparison inclusive: a boundary value falls in
\* the lower level.
categorize_risk_inclusive(x) ==
    IF x <= 200 THEN "Very Low"
    ELSE IF x <= 400 THEN "Low"
    ELSE IF x <= 600 THEN "Medium"
    ELSE IF x <= 800 THEN "High"
    ELSE "Very High"

\* _categorize_risk
categorize_risk(x) ==
    IF x < 200 THEN "Very Low"
    ELSE IF x < 400 THEN "Low"
    ELSE IF x < 600 THEN "Medium"
    ELSE IF x < 800 THEN "High"
    ELSE "Very High"

(***************************************************************************)
(* SpecRisk: _assess_risk on a number with every outcome of the lookups,    *)
(* and _categorize_risk on every score.                                     *)
(***************************************************************************)
RiskInit ==
    /\ raw = <<>>
    /\ number = <<>>
    /\ renorm = <<>>
    /\ npc = "off"
    /\ ScanIdle
    /\ DispatchIdle
    /\ PatIdle
    /\ rmode \in {"assess", "categorize"}
    /\ IF rmode = "assess"
       THEN /\ rparse \in BOOLEAN
            /\ number_type \in NumberTypes
            /\ has_carrier \in BOOLEAN
            /\ risk_score = 0
       ELSE /\ rparse = FALSE
            /\ number_type = 0
            /\ has_carrier = FALSE
            /\ risk_score \in Scores
    /\ risk_factors = NoFactors
    /\ risk_level = "none"
    /\ rpc = "start"

\* _assess_risk on a number phonenumbers parses.
AssessRisk ==
    /\ rmode = "assess"
    /\ rpc = "start"
    /\ rparse
    /\ risk_factors' = RiskFactors(number_type, rparse, has_carrier)
    /\ risk_score' = TotalRisk(risk_factors')
    /\ risk_level' = categorize_risk(risk_score')
    /\ rpc' = "done"
    /\ UNCHANGED <<rmode, rparse, number_type, has_carrier>>
    /\ UNCHANGED <<normVars, scanVars, dispVars, patVars>>

\* _assess_risk on a number phonenumbers does not parse: the call of
\* phonenumbers.parse in the dict literal raises NumberParseException.
AssessRiskRaises ==
    /\ rmode = "assess"
    /\ rpc = "start"
    /\ ~rparse
    /\ rpc' = "raised"
    /\ UNCHANGED <<rmode, rparse, number_type, has_carrier, risk_factors,
                   risk_score, risk_level>>
    /\ UNCHANGED <<normVars, scanVars, dispVars, patVars>>

\* _categorize_risk(risk_score)
CategorizeRisk ==
    /\ rmode = "categorize"
    /\ rpc = "start"
    /\ risk_level' = categorize_risk(risk_score)
    /\ rpc' = "done"
    /\ UNCHANGED <<rmode, rparse, number_type, has_carrier, risk_factors,
                   risk_score>>
    /\ UNCHANGED <<normVars, scanVars, dispVars, patVars>>

RiskNext == AssessRisk \/ AssessRiskRaises \/ CategorizeRisk

SpecRisk == RiskInit /\ [][RiskNext]_vars

\* C11: _assess_risk always produces a score, and the score is between 0
\* and 1, also when the number cannot be parsed.
C11_ScoreProducedAndBounded ==
    (rmode = "assess" /\ rpc # "start") =>
        /\ rpc = "done"
        /\ risk_score >= 0
        /\ risk_score <= 1000

Levels == <<"Very Low", "Low", "Medium", "High", "Very High">>

Rank(l) == CHOOSE k \in 1..Len(Levels) : Levels[k] = l

\* C12: the level follows the declared thresholds, a boundary value belongs
\* to the higher level, and no lower score has a higher level.
C12_Thresholds ==
    rpc = "done" =>
        /\ risk_level = "Very Low" <=> risk_score < 200
        /\ risk_level = "Low" <=> (200 <= risk_score /\ risk_score < 400)
        /\ risk_level = "Medium" <=> (400 <= risk_score /\ risk_score < 600)
        /\ risk_level = "High" <=> (600 <= risk_score /\ risk_score < 800)
        /\ risk_level = "Very High" <=> 800 <= risk_score
        /\ \A x \in 0..risk_score :
              Rank(categorize_risk(x)) <= Rank(risk_level)

\* _assess_risk computed the boundary score 0.6 (line type 0, no carrier
\* name) and reported it as High.
C12_Witness ==
    /\ rmode = "assess"
    /\ rpc = "done"
    /\ risk_score = 600
    /\ risk_level = "High"

(***************************************************************************)
(* _analyze_patterns: DBSCAN over the temporal, geographical and            *)
(* behavioural data.  A clustering is given by the number of points and the *)
(* set of pairs of points within eps of each other.                         *)
(***************************************************************************)
MaxPoints == 3

\* min_samples of the three DBSCAN calls.
MinSamples == 2

\* eps of the temporal DBSCAN call, in hours.
TemporalEps == 3

\* The data the placeholder providers return: one activity hour ("9-17"),
\* no coordinates, no metrics.
StubHours == <<9>>

HourValues == {0, 2, 4, 9, 20}

CoordinateValues == {<<0, 0>>, <<0, 1>>, <<1, 1>>, <<5, 5>>}

MetricValues == {0, 1, 5}

SeqsUpTo(S, k) == UNION {[1..j -> S] : j \in 0..k}

Abs(x) == IF x < 0 THEN -x ELSE x

\* Hours within eps = 3 of each other.
NearHours ==
    {p \in (1..Len(activity_hours)) \X (1..Len(activity_hours)) :
        Abs(activity_hours[p[1]] - activity_hours[p[2]]) <= TemporalEps}

\* Coordinates within eps = 0.1 of each other (Euclidean, unit 0.1).
NearCoordinates ==
    {p \in (1..Len(coordinates)) \X (1..Len(coordinates)) :
        LET dx == coordinates[p[1]][1] - coordinates[p[2]][1]
            dy == coordinates[p[1]][2] - coordinates[p[2]][2]
        IN  dx * dx + dy * dy <= 1}

\* np.array(behavior_data.get('metrics', [[0, 0, 0]])): the rows clustered.
BehaviorRows == IF has_metrics THEN metrics ELSE <<0>>

RECURSIVE SumSeq(_)
SumSeq(q) == IF q = <<>> THEN 0 ELSE q[1] + SumSeq(Tail(q))

\* Rows within eps = 0.5 of each other after StandardScaler: the distance
\* |x - y| / sigma <= 1/2, with sigma taken as 1 when the variance is 0;
\* k * k * variance = k * sum of squares - square of the sum.
NearStandardized ==
    LET q == BehaviorRows
        k == Len(q)
        kkvar == k * SumSeq([r \in 1..k |-> q[r] * q[r]]) - SumSeq(q) * SumSeq(q)
    IN  {p \in (1..k) \X (1..k) :
            LET d == q[p[1]] - q[p[2]]
            IN  IF kkvar = 0 THEN 4 * d * d <= 1
                ELSE 4 * k * k * d * d <= kkvar}

\* The core points: those with at least min_samples points, themselves
\* included, within eps.
CorePoints(k, near) ==
    {i \in 1..k : Cardinality({j \in 1..k : <<i, j>> \in near}) >= MinSamples}

RECURSIVE Grow(_, _, _)
\* The core points density-reachable from the set S.
Grow(S, k, near) ==
    LET more == S \cup {j \in CorePoints(k, near) : \E i \in S : <<i, j>> \in near}
    IN  IF more = S THEN S ELSE Grow(more, k, near)

\* The cluster of a point, named by its first core point; -1 for noise.
Label(i, k, near) ==
    LET core == CorePoints(k, near)
        mine == IF i \in core THEN {i} ELSE {j \in core : <<i, j>> \in near}
    IN  IF mine = {} THEN -1
        ELSE Min(Grow({Min(mine)}, k, near))

\* len(set(clusters.labels_))
CountLabels(k, near) == Cardinality({Label(i, k, near) : i \in 1..k})

RECURSIVE Pick(_, _, _, _)
\* The points of q, up to the k-th, whose label is (keep = TRUE) or is not
\* (keep = FALSE) the noise label, in order.
Pick(q, k, noise, near) ==
    IF k = 0 THEN <<>>
    ELSE LET rest == Pick(q, k - 1, noise, near)
         IN  IF (Label(k, Len(q), near) = -1) = noise
             THEN Append(rest, q[k]) ELSE rest

\* temporal_patterns
TemporalPatterns ==
    IF Len(activity_hours) > 0
    THEN [clusters |-> CountLabels(Len(activity_hours), NearHours),
          peak_hours |-> Pick(activity_hours, Len(activity_hours), FALSE, NearHours)]
    ELSE [clusters |-> 0, peak_hours |-> <<>>]

\* location_patterns
LocationPatterns ==
    IF Len(coordinates) > 0
    THEN [clusters |-> CountLabels(Len(coordinates), NearCoordinates),
          hotspots |-> Pick(coordinates, Len(coordinates), FALSE, NearCoordinates)]
    ELSE [clusters |-> 0, hotspots |-> <<>>]

\* 'behavioral_patterns' of the returned dict; anomalies names the rows whose
\* standardized vectors the code lists.
BehavioralPatterns ==
    [clusters |-> CountLabels(Len(BehaviorRows), NearStandardized),
     anomalies |-> Pick(BehaviorRows, Len(BehaviorRows), TRUE, NearStandardized)]

(***************************************************************************)
(* SpecPatterns: _analyze_patterns on the data of one provider, the other   *)
(* two returning their placeholder data.                                    *)
(***************************************************************************)
PatternsInit ==
    /\ raw = <<>>
    /\ number = <<>>
    /\ renorm = <<>>
    /\ npc = "off"
    /\ ScanIdle
    /\ DispatchIdle
    /\ RiskIdle
    /\ \/ /\ activity_hours \in SeqsUpTo(HourValues, MaxPoints)
          /\ coordinates = <<>>
          /\ has_metrics = FALSE
          /\ metrics = <<>>
       \/ /\ activity_hours = StubHours
          /\ coordinates \in SeqsUpTo(CoordinateValues, MaxPoints)
          /\ has_metrics = FALSE
          /\ metrics = <<>>
       \/ /\ activity_hours = StubHours
          /\ coordinates = <<>>
          /\ has_metrics = TRUE
          /\ metrics \in SeqsUpTo(MetricValues, MaxPoints)
    /\ patterns = NoPatterns
    /\ ppc = "start"

\* _analyze_patterns returns.
AnalyzePatterns ==
    /\ ppc = "start"
    /\ Len(BehaviorRows) > 0
    /\ patterns' = [temporal |-> TemporalPatterns,
                    geographical |-> LocationPatterns,
                    behavioral |-> BehavioralPatterns]
    /\ ppc' = "done"
    /\ UNCHANGED <<activity_hours, coordinates, has_metrics, metrics>>
    /\ UNCHANGED <<normVars, scanVars, dispVars, riskVars>>

\* 'metrics' is an empty list: StandardScaler rejects the empty array with
\* ValueError.
AnalyzePatternsRaises ==
    /\ ppc = "start"
    /\ Len(BehaviorRows) = 0
    /\ ppc' = "raised"
    /\ UNCHANGED <<activity_hours, coordinates, has_metrics, metrics, patterns>>
    /\ UNCHANGED <<normVars, scanVars, dispVars, riskVars>>

PatternsNext == AnalyzePatterns \/ AnalyzePatternsRaises

SpecPatterns == PatternsInit /\ [][PatternsNext]_vars

\* C13: a dimension with fewer than 2 data points is reported with a
\* cluster count of 0 and no members.
C13_FewPointsNoCluster ==
    ppc = "done" =>
        /\ Len(activity_hours) < 2 =>
              /\ patterns.temporal.clusters = 0
              /\ patterns.temporal.peak_hours = <<>>
        /\ Len(coordinates) < 2 =>
              /\ patterns.geographical.clusters = 0
              /\ patterns.geographical.hotspots = <<>>
        /\ (~has_metrics \/ Len(metrics) < 2) =>
              patterns.behavioral.clusters = 0

====
